---- MODULE Spec2Model ----
(***************************************************************************)
(* The wormhole facade of src/wormhole/wormhole.py: the Deferred-style     *)
(* _DeferredWormhole and the delegate-style _DelegatedWormhole, driven     *)
(* from above by the application and from below by the Boss.               *)
(***************************************************************************)
EXTENDS Naturals, Sequences, FiniteSets, TLC

\* Bounds of the model.
MaxFutures == 4     \* Deferreds the application asks for (when_*, close)
MaxReceived == 2    \* received() events the Boss delivers
MaxClose == 2       \* close() calls on the delegate-style facade
MaxWelcomes == 2    \* welcomes one _WelcomeHandler is given

(***************************************************************************)
(* Python values.  Every value carries its type in the field t.            *)
(***************************************************************************)
None == [t |-> "None"]
Str(s) == [t |-> "str", v |-> s]
Bytes(s) == [t |-> "bytes", v |-> s]
Dict(s) == [t |-> "dict", v |-> s]
Exception(s) == [t |-> "Exception", v |-> s]
Failure(e) == [t |-> "Failure", value |-> e]
WormholeClosed(r) == [t |-> "WormholeClosed", arg |-> r]
NoKeyError == [t |-> "NoKeyError"]
TypeError == [t |-> "TypeError"]

\* Python truth value: None, "" and b"" are false.
Truthy(x) == /\ x.t /= "None"
             /\ ~(x.t \in {"str", "bytes"} /\ x.v = "")

\* isinstance(result, Exception)
IsException(x) == x.t = "Exception"

\* isinstance(purpose, type("")), under unicode_literals
IsText(x) == x.t = "str"

\* The inputs the application and the Boss may pass.
Codes == {Str("4-purple-sausages")}
Keys == {Bytes("key")}
Verifiers == {Bytes("verifier")}
Versions == {Dict("versions")}
Welcomes == {Dict("welcome")}
\* received() never looks into the plaintext, so the Boss's payloads are
\* taken pairwise distinct: the k-th received() carries Payloads[k].
Payloads == <<Bytes("a"), Bytes("b"), Bytes("c"), Bytes("d")>>
Results == {Exception("boom"), Str("bye"), Str("")}
Purposes == {Str("purpose"), Bytes("purpose")}
Lengths == {32}

Kinds == {"code", "verifier", "version", "received", "closed"}

VARIABLES
  style,                \* "deferred" or "delegated": the facade create() built
  code,                 \* _DeferredWormhole._code
  key,                  \* _key of either facade
  verifier,             \* _DeferredWormhole._verifier
  version,              \* _DeferredWormhole._version
  code_observers,       \* lists of waiting Deferreds (indices into futures)
  verifier_observers,
  version_observers,
  received_observers,
  closed_observers,
  received_data,        \* _DeferredWormhole._received_data
  observer_result,      \* _DeferredWormhole._observer_result
  closed_result,        \* _DeferredWormhole._closed_result
  futures,              \* every Deferred handed to the application, per kind
  boss_close_calls,     \* how often Boss.close() was invoked
  delegate_calls,       \* the notifications the delegate has received, in order
  delivered,            \* the one-shot Boss events delivered so far
  rx_log,               \* the payloads the Boss delivered, in delivery order
  terminal,             \* the result the Boss passed to closed(), None before
  event_log,            \* the Boss events the delegate-style facade was given
  fired,                \* the Deferreds the latest got_* event fired, in order
  welcome_handler,      \* the fields of the _WelcomeHandler
  stderr,               \* what the _WelcomeHandler printed, in order
  signalled,            \* the calls the signal_error hook received, in order
  handled,              \* the welcomes handle_welcome was given, in order
  welcome_raised,       \* what the latest handle_welcome raised, None if nothing
  restored              \* what the latest from_serialized did, None before

vars == <<style, code, key, verifier, version, code_observers,
          verifier_observers, version_observers, received_observers,
          closed_observers, received_data, observer_result, closed_result,
          futures, boss_close_calls, delegate_calls, delivered, rx_log,
          terminal, event_log, fired, welcome_handler, stderr, signalled,
          handled, welcome_raised, restored>>

\* What the facades' methods leave alone: the welcome handler and the factory.
factory_fields == <<welcome_handler, stderr, signalled, handled,
                    welcome_raised, restored>>

\* What the welcome handler and from_serialized leave alone: the facade.
facade_fields == <<style, code, key, verifier, version, code_observers,
                   verifier_observers, version_observers,
                   received_observers, closed_observers, received_data,
                   observer_result, closed_result, futures,
                   boss_close_calls, delegate_calls, delivered, rx_log,
                   terminal, event_log, fired>>

deferred_fields == <<code, verifier, version, code_observers,
                     verifier_observers, version_observers,
                     received_observers, closed_observers, received_data,
                     observer_result, closed_result, futures>>

(***************************************************************************)
(* twisted.internet.defer.Deferred, as far as the facade uses it.          *)
(***************************************************************************)
\* defer.Deferred()
Deferred == [born |-> "pending", fires |-> 0, how |-> "none", result |-> None]

\* defer.succeed(value)
succeed(value) ==
  [born |-> "fired", fires |-> 1, how |-> "callback", result |-> value]

\* d.errback(fail) wraps a bare exception in a Failure
AsFailure(fail) == IF fail.t = "Failure" THEN fail ELSE Failure(fail)

\* defer.fail(error)
fail(error) ==
  [born |-> "fired", fires |-> 1, how |-> "errback",
   result |-> AsFailure(error)]

\* d.callback(value); a second firing raises AlreadyCalledError and keeps
\* the first result
callback(d, value) ==
  IF d.fires = 0
  THEN [d EXCEPT !.fires = 1, !.how = "callback", !.result = value]
  ELSE [d EXCEPT !.fires = 2]

\* d.errback(error)
errback(d, error) ==
  IF d.fires = 0
  THEN [d EXCEPT !.fires = 1, !.how = "errback", !.result = AsFailure(error)]
  ELSE [d EXCEPT !.fires = 2]

fire(d, how, value) ==
  IF how = "callback" THEN callback(d, value) ELSE errback(d, value)

\* "for d in observers: d.<how>(value)" over the Deferreds fs of one kind.
\* The loop stops at the first Deferred that raises AlreadyCalledError.
\* order lists the Deferreds in the order the loop fired them.
RECURSIVE FireEach(_, _, _, _)
FireEach(fs, observers, how, value) ==
  IF observers = <<>>
  THEN [fs |-> fs, raised |-> FALSE, order |-> <<>>]
  ELSE LET i == Head(observers)
           after == [fs EXCEPT ![i] = fire(fs[i], how, value)]
           rest == FireEach(after, Tail(observers), how, value)
       IN IF fs[i].fires > 0
          THEN [fs |-> after, raised |-> TRUE, order |-> <<i>>]
          ELSE [rest EXCEPT !.order = <<i>> \o @]

NumFutures == Len(futures["code"]) + Len(futures["verifier"])
              + Len(futures["version"]) + Len(futures["received"])
              + Len(futures["closed"])

\* _key.derive_key(key, purpose, length): HKDF of the key for the purpose
derive_key(k, purpose, length) ==
  [t |-> "bytes", derived |-> <<k.v, purpose.v, length>>]

\* to_bytes(purpose)
to_bytes(purpose) == Bytes(purpose.v)

(***************************************************************************)
(* _WelcomeHandler.  Version strings and the texts of a welcome are        *)
(* sequences of characters; a welcome is a mapping from some of the keys   *)
(* motd, current_cli_version and error to such texts.                      *)
(***************************************************************************)
Release == <<"0", ".", "9", ".", "1">>
Development == <<"0", ".", "9", ".", "1", "-", "3", "-", "g", "a", "b">>
Advisory == <<"0", ".", "9", ".", "0">>
Motd == <<"h", "i", "\n", "y", "o", "u">>
ErrorText == <<"n", "o">>

LocalVersions == {Release, Development}

WelcomeKeys == {"motd", "current_cli_version", "error"}

WelcomeValues(k) ==
  CASE k = "motd" -> {Motd}
    [] k = "current_cli_version" -> {Advisory, Release}
    [] k = "error" -> {ErrorText}

WelcomeMessages ==
  UNION {{w \in [K -> UNION {WelcomeValues(k) : k \in K}] :
            \A k \in K : w[k] \in WelcomeValues(k)} : K \in SUBSET WelcomeKeys}

\* key in welcome
In(k, welcome) == k \in DOMAIN welcome

\* "-" in text
Contains(text, ch) == \E i \in 1..Len(text) : text[i] = ch

\* text.splitlines()
RECURSIVE splitlines(_)
splitlines(text) ==
  IF text = <<>> THEN <<>>
  ELSE IF ~Contains(text, "\n") THEN <<text>>
  ELSE LET n == CHOOSE i \in 1..Len(text) :
                  /\ text[i] = "\n"
                  /\ \A j \in 1..(i - 1) : text[j] /= "\n"
       IN <<SubSeq(text, 1, n - 1)>>
            \o splitlines(SubSeq(text, n + 1, Len(text)))

\* sep.join(lines)
RECURSIVE join(_, _)
join(sep, lines) ==
  IF lines = <<>> THEN <<>>
  ELSE IF Len(lines) = 1 THEN lines[1]
  ELSE lines[1] \o sep \o join(sep, Tail(lines))

\* The objects create() may hand to _WelcomeHandler as signal_error.
NotImplemented == [t |-> "NotImplementedType"]
SignalErrorHook == [t |-> "function"]
Callable(x) == x.t = "function"

WelcomeError(text) == [t |-> "WelcomeError", v |-> text]

\* _WelcomeHandler.__init__
WelcomeHandler(url, current_version, signal_error) ==
  [ws_url |-> url,
   version_warning_displayed |-> FALSE,
   current_version |-> current_version,
   signal_error |-> signal_error]

RelayUrl == Str("ws://relay")

\* create() without a welcome_handler: the default handler
create_welcome_handler(relay_url, own_version) ==
  WelcomeHandler(relay_url, own_version, NotImplemented)

\* What handle_welcome prints for the motd.
motd_lines(handler, welcome) ==
  IF In("motd", welcome)
  THEN <<[what |-> "motd", url |-> handler.ws_url,
          text |-> join(<<"\n", " ">>, splitlines(welcome["motd"]))]>>
  ELSE <<>>

\* A handle_welcome that forgets the "only warn once" latch.
version_warning_due_every_time(handler, welcome) ==
  /\ In("current_cli_version", welcome)
  /\ ~Contains(handler.current_version, "-")
  /\ welcome["current_cli_version"] /= handler.current_version

\* The test that guards the version warning.
version_warning_due(handler, welcome) ==
  /\ In("current_cli_version", welcome)
  /\ ~Contains(handler.current_version, "-")
  /\ ~handler.version_warning_displayed
  /\ welcome["current_cli_version"] /= handler.current_version

\* The two lines of the version warning.
version_warning_lines(handler, welcome) ==
  IF version_warning_due(handler, welcome)
  THEN <<[what |-> "version-warning"],
         [what |-> "server-claims",
          current |-> welcome["current_cli_version"],
          ours |-> handler.current_version]>>
  ELSE <<>>

\* A handle_welcome that signals the error only when no motd was shown.
signals_error_unless_motd(welcome) ==
  In("error", welcome) /\ ~In("motd", welcome)

\* The test that guards the error signal.
signals_error(welcome) == In("error", welcome)

WelcomeHandler_handle_welcome(welcome) ==
  /\ stderr' = stderr \o motd_lines(welcome_handler, welcome)
                      \o version_warning_lines(welcome_handler, welcome)
  /\ welcome_handler' =
       IF version_warning_due(welcome_handler, welcome)
       THEN [welcome_handler EXCEPT !.version_warning_displayed = TRUE]
       ELSE welcome_handler
  /\ IF signals_error(welcome)
     THEN IF Callable(welcome_handler.signal_error)
          THEN /\ signalled' =
                    Append(signalled,
                           <<WelcomeError(welcome["error"]), "unwelcome">>)
               /\ welcome_raised' = None
          ELSE /\ welcome_raised' = TypeError
               /\ UNCHANGED signalled
     ELSE /\ welcome_raised' = None
          /\ UNCHANGED signalled
  /\ handled' = Append(handled, welcome)
  /\ UNCHANGED <<facade_fields, restored>>

(***************************************************************************)
(* serialize() and from_serialized().                                      *)
(***************************************************************************)
BossState == Dict("boss")

\* _DelegatedWormhole.serialize
serialize(boss_state) ==
  [serialized_wormhole_version |-> 1, boss |-> boss_state]

\* The snapshots from_serialized may be given: serialize()'s own, and the
\* same with another version tag.
Snapshots ==
  {serialize(BossState)}
    \cup {[serialize(BossState) EXCEPT !.serialized_wormhole_version = v] :
            v \in {0, 2}}

DelegatedWormholeObject == [t |-> "_DelegatedWormhole"]

\* from_serialized: the assert, the Boss built and started, then
\* "raise NotImplemented", which raises TypeError.
from_serialized_outcome(serialized) ==
  IF serialized.serialized_wormhole_version /= 1
  THEN [raised |-> "AssertionError", boss_started |-> FALSE,
        returned |-> None]
  ELSE [raised |-> "TypeError", boss_started |-> TRUE, returned |-> None]

from_serialized(serialized) ==
  /\ restored' = [snapshot |-> serialized,
                  outcome |-> from_serialized_outcome(serialized)]
  /\ UNCHANGED <<facade_fields, welcome_handler, stderr, signalled,
                 handled, welcome_raised>>

(***************************************************************************)
(* The state after create(): one facade, nothing delivered yet.            *)
(***************************************************************************)
FacadeInit ==
  /\ style \in {"deferred", "delegated"}
  /\ code = None
  /\ key = None
  /\ verifier = None
  /\ version = None
  /\ code_observers = <<>>
  /\ verifier_observers = <<>>
  /\ version_observers = <<>>
  /\ received_observers = <<>>
  /\ closed_observers = <<>>
  /\ received_data = <<>>
  /\ observer_result = None
  /\ closed_result = None
  /\ futures = [k \in Kinds |-> <<>>]
  /\ boss_close_calls = 0
  /\ delegate_calls = <<>>
  /\ delivered = {}
  /\ rx_log = <<>>
  /\ terminal = None
  /\ event_log = <<>>
  /\ fired = <<>>

\* The welcome handler and the factory before any welcome or restoration.
HandlerInit(handler) ==
  /\ welcome_handler = handler
  /\ stderr = <<>>
  /\ signalled = <<>>
  /\ handled = <<>>
  /\ welcome_raised = None
  /\ restored = None

\* create() of a release build, without a custom welcome handler.
Init == FacadeInit /\ HandlerInit(create_welcome_handler(RelayUrl, Release))

\* Any welcome handler: built by create(), or built with a callable hook.
FactoryInit ==
  /\ FacadeInit
  /\ \E v \in LocalVersions, hook \in {NotImplemented, SignalErrorHook} :
       HandlerInit(WelcomeHandler(RelayUrl, v, hook))

(***************************************************************************)
(* _DeferredWormhole, from above.                                          *)
(***************************************************************************)
\* A when_*() that looks at the cached value before the observer result.
when_answer_cached_first(obs_result, cached) ==
  IF cached /= None THEN "succeed"
  ELSE IF obs_result /= None THEN "fail"
  ELSE "wait"

\* The three-way choice every when_*() makes: fail with the sticky observer
\* result, succeed with the cached value, or wait.
when_answer(obs_result, cached) ==
  IF obs_result /= None THEN "fail"
  ELSE IF cached /= None THEN "succeed"
  ELSE "wait"

\* The Deferred a when_code/when_verifier/when_version call returns.
when_deferred(obs_result, cached) ==
  CASE when_answer(obs_result, cached) = "fail" -> fail(obs_result)
    [] when_answer(obs_result, cached) = "succeed" -> succeed(cached)
    [] OTHER -> Deferred

\* observers.append(d), when the call waits
when_observers(observers, obs_result, cached, d) ==
  IF when_answer(obs_result, cached) = "wait"
  THEN Append(observers, d)
  ELSE observers

DeferredWormhole_when_code ==
  /\ style = "deferred"
  /\ NumFutures < MaxFutures
  /\ futures' = [futures EXCEPT
                   !["code"] = Append(@, when_deferred(observer_result, code))]
  /\ code_observers' = when_observers(code_observers, observer_result, code,
                                      Len(futures["code"]) + 1)
  /\ UNCHANGED <<style, code, key, verifier, version, verifier_observers,
                 version_observers, received_observers, closed_observers,
                 received_data, observer_result, closed_result,
                 boss_close_calls, delegate_calls, delivered, rx_log,
                 terminal>>
  /\ fired' = <<>>
  /\ UNCHANGED event_log
  /\ UNCHANGED factory_fields

DeferredWormhole_when_verifier ==
  /\ style = "deferred"
  /\ NumFutures < MaxFutures
  /\ futures' = [futures EXCEPT
                   !["verifier"] =
                      Append(@, when_deferred(observer_result, verifier))]
  /\ verifier_observers' =
       when_observers(verifier_observers, observer_result, verifier,
                      Len(futures["verifier"]) + 1)
  /\ UNCHANGED <<style, code, key, verifier, version, code_observers,
                 version_observers, received_observers, closed_observers,
                 received_data, observer_result, closed_result,
                 boss_close_calls, delegate_calls, delivered, rx_log,
                 terminal>>
  /\ fired' = <<>>
  /\ UNCHANGED event_log
  /\ UNCHANGED factory_fields

DeferredWormhole_when_version ==
  /\ style = "deferred"
  /\ NumFutures < MaxFutures
  /\ futures' = [futures EXCEPT
                   !["version"] =
                      Append(@, when_deferred(observer_result, version))]
  /\ version_observers' =
       when_observers(version_observers, observer_result, version,
                      Len(futures["version"]) + 1)
  /\ UNCHANGED <<style, code, key, verifier, version, code_observers,
                 verifier_observers, received_observers, closed_observers,
                 received_data, observer_result, closed_result,
                 boss_close_calls, delegate_calls, delivered, rx_log,
                 terminal>>
  /\ fired' = <<>>
  /\ UNCHANGED event_log
  /\ UNCHANGED factory_fields

\* list.pop(): the last item and the rest
pop_last(list) ==
  [item |-> list[Len(list)], rest |-> SubSeq(list, 1, Len(list) - 1)]

\* list.pop(0): the first item and the rest
pop0(list) == [item |-> Head(list), rest |-> Tail(list)]

DeferredWormhole_when_received ==
  /\ style = "deferred"
  /\ NumFutures < MaxFutures
  /\ IF observer_result /= None
     THEN /\ futures' = [futures EXCEPT
                           !["received"] = Append(@, fail(observer_result))]
          /\ UNCHANGED <<received_data, received_observers>>
     ELSE IF received_data /= <<>>
     THEN /\ futures' = [futures EXCEPT
                           !["received"] =
                              Append(@, succeed(pop0(received_data).item))]
          /\ received_data' = pop0(received_data).rest
          /\ UNCHANGED received_observers
     ELSE /\ futures' = [futures EXCEPT !["received"] = Append(@, Deferred)]
          /\ received_observers' =
               Append(received_observers, Len(futures["received"]) + 1)
          /\ UNCHANGED received_data
  /\ UNCHANGED <<style, code, key, verifier, version, code_observers,
                 verifier_observers, version_observers, closed_observers,
                 observer_result, closed_result, boss_close_calls,
                 delegate_calls, delivered, rx_log,
                 terminal>>
  /\ fired' = <<>>
  /\ UNCHANGED event_log
  /\ UNCHANGED factory_fields

\* What derive_key returns or raises, given the facade's _key.  The call
\* reads _key and changes nothing.
derive_key_outcome(k, purpose, length) ==
  IF ~IsText(purpose) THEN TypeError
  ELSE IF ~Truthy(k) THEN NoKeyError
  ELSE derive_key(k, to_bytes(purpose), length)

DeferredWormhole_derive_key(purpose, length) ==
  /\ style = "deferred"
  /\ derive_key_outcome(key, purpose, length).t
       \in {"TypeError", "NoKeyError", "bytes"}
  /\ UNCHANGED vars

\* "if self._closed_result:" -- the cached terminal value is used when truthy
close_is_cached(cached) == Truthy(cached)

DeferredWormhole_close ==
  /\ style = "deferred"
  /\ NumFutures < MaxFutures
  /\ IF close_is_cached(closed_result)
     THEN /\ futures' = [futures EXCEPT
                           !["closed"] = Append(@, succeed(closed_result))]
          /\ UNCHANGED <<closed_observers, boss_close_calls>>
     ELSE /\ futures' = [futures EXCEPT !["closed"] = Append(@, Deferred)]
          /\ closed_observers' =
               Append(closed_observers, Len(futures["closed"]) + 1)
          /\ boss_close_calls' = boss_close_calls + 1
  /\ UNCHANGED <<style, code, key, verifier, version, code_observers,
                 verifier_observers, version_observers, received_observers,
                 received_data, observer_result, closed_result,
                 delegate_calls, delivered, rx_log,
                 terminal>>
  /\ fired' = <<>>
  /\ UNCHANGED event_log
  /\ UNCHANGED factory_fields

(***************************************************************************)
(* _DeferredWormhole, from below.                                          *)
(***************************************************************************)
\* A got_*() loop that stops one observer short.
got_fire_skip_last(fs, observers, value) ==
  FireEach(fs, SubSeq(observers, 1, Len(observers) - 1), "callback", value)

\* A got_*() loop that walks its observers last to first.
RECURSIVE Reverse(_)
Reverse(list) ==
  IF list = <<>> THEN <<>> ELSE Append(Reverse(Tail(list)), Head(list))

got_fire_reversed(fs, observers, value) ==
  FireEach(fs, Reverse(observers), "callback", value)

\* A got_*() that forgets "observers[:] = []".
got_clear_keeps(fs, observers, value) == observers

\* "for d in observers: d.callback(value)" then "observers[:] = []": the
\* list is cleared only when the loop did not raise.
got_fire(fs, observers, value) == FireEach(fs, observers, "callback", value)

got_clear(fs, observers, value) ==
  IF got_fire(fs, observers, value).raised THEN observers ELSE <<>>

DeferredWormhole_got_code(c) ==
  /\ style = "deferred"
  /\ code' = c
  /\ futures' = [futures EXCEPT
                   !["code"] = got_fire(@, code_observers, c).fs]
  /\ code_observers' = got_clear(futures["code"], code_observers, c)
  /\ delivered' = delivered \cup {"got_code"}
  /\ UNCHANGED <<style, key, verifier, version, verifier_observers,
                 version_observers, received_observers, closed_observers,
                 received_data, observer_result, closed_result,
                 boss_close_calls, delegate_calls, rx_log, terminal>>
  /\ fired' = got_fire(futures["code"], code_observers, c).order
  /\ UNCHANGED event_log
  /\ UNCHANGED factory_fields

DeferredWormhole_got_welcome(w) ==
  /\ style = "deferred"
  /\ delivered' = delivered \cup {"got_welcome"}
  /\ UNCHANGED <<style, key, deferred_fields, boss_close_calls,
                 delegate_calls, rx_log, terminal>>
  /\ fired' = <<>>
  /\ UNCHANGED event_log
  /\ UNCHANGED factory_fields

DeferredWormhole_got_key(k) ==
  /\ style = "deferred"
  /\ key' = k
  /\ delivered' = delivered \cup {"got_key"}
  /\ UNCHANGED <<style, deferred_fields, boss_close_calls, delegate_calls,
                 rx_log, terminal>>
  /\ fired' = <<>>
  /\ UNCHANGED event_log
  /\ UNCHANGED factory_fields

DeferredWormhole_got_verifier(v) ==
  /\ style = "deferred"
  /\ verifier' = v
  /\ futures' = [futures EXCEPT
                   !["verifier"] = got_fire(@, verifier_observers, v).fs]
  /\ verifier_observers' =
       got_clear(futures["verifier"], verifier_observers, v)
  /\ delivered' = delivered \cup {"got_verifier"}
  /\ UNCHANGED <<style, code, key, version, code_observers,
                 version_observers, received_observers, closed_observers,
                 received_data, observer_result, closed_result,
                 boss_close_calls, delegate_calls, rx_log, terminal>>
  /\ fired' = got_fire(futures["verifier"], verifier_observers, v).order
  /\ UNCHANGED event_log
  /\ UNCHANGED factory_fields

DeferredWormhole_got_version(v) ==
  /\ style = "deferred"
  /\ version' = v
  /\ futures' = [futures EXCEPT
                   !["version"] = got_fire(@, version_observers, v).fs]
  /\ version_observers' =
       got_clear(futures["version"], version_observers, v)
  /\ delivered' = delivered \cup {"got_version"}
  /\ UNCHANGED <<style, code, key, verifier, code_observers,
                 verifier_observers, received_observers, closed_observers,
                 received_data, observer_result, closed_result,
                 boss_close_calls, delegate_calls, rx_log, terminal>>
  /\ fired' = got_fire(futures["version"], version_observers, v).order
  /\ UNCHANGED event_log
  /\ UNCHANGED factory_fields

\* A received() that buffers the plaintext it has just handed to a waiter.
DeferredWormhole_received_also_buffers(plaintext) ==
  /\ style = "deferred"
  /\ IF received_observers /= <<>>
     THEN /\ futures' =
               [futures EXCEPT
                  !["received"][pop0(received_observers).item] =
                     callback(@, plaintext)]
          /\ received_observers' = pop0(received_observers).rest
          /\ received_data' = Append(received_data, plaintext)
     ELSE /\ received_data' = Append(received_data, plaintext)
          /\ UNCHANGED <<futures, received_observers>>
  /\ rx_log' = Append(rx_log, plaintext)
  /\ UNCHANGED <<style, code, key, verifier, version, code_observers,
                 verifier_observers, version_observers, closed_observers,
                 observer_result, closed_result, boss_close_calls,
                 delegate_calls, delivered, terminal>>
  /\ fired' = <<>>
  /\ UNCHANGED event_log
  /\ UNCHANGED factory_fields

DeferredWormhole_received(plaintext) ==
  /\ style = "deferred"
  /\ IF received_observers /= <<>>
     THEN /\ futures' =
               [futures EXCEPT
                  !["received"][pop0(received_observers).item] =
                     callback(@, plaintext)]
          /\ received_observers' = pop0(received_observers).rest
          /\ UNCHANGED received_data
     ELSE /\ received_data' = Append(received_data, plaintext)
          /\ UNCHANGED <<futures, received_observers>>
  /\ rx_log' = Append(rx_log, plaintext)
  /\ UNCHANGED <<style, code, key, verifier, version, code_observers,
                 verifier_observers, version_observers, closed_observers,
                 observer_result, closed_result, boss_close_calls,
                 delegate_calls, delivered, terminal>>
  /\ fired' = <<>>
  /\ UNCHANGED event_log
  /\ UNCHANGED factory_fields

\* A closed() that hands every observer a Failure of the bare result.
closed_observer_result_failure(result) == Failure(result)

\* A closed() that caches the bare result for close(), exception or not.
closed_closed_result_plain(result) == result

\* closed(): what pending and late when_*() observers get
closed_observer_result(result) ==
  IF IsException(result) THEN Failure(result) ELSE WormholeClosed(result)

\* closed(): what close() gets
closed_closed_result(result) ==
  IF IsException(result) THEN Failure(result) ELSE result

\* The lists closed() walks with errback, in the order it walks them.
closed_errback_lists ==
  <<[kind |-> "verifier", observers |-> verifier_observers],
    [kind |-> "version", observers |-> version_observers],
    [kind |-> "received", observers |-> received_observers]>>

\* closed()'s four loops in sequence; a loop that raises ends the handler.
RECURSIVE closed_loops(_, _, _, _)
closed_loops(fs, lists, obs, cres) ==
  IF lists = <<>>
  THEN [fs EXCEPT !["closed"] =
                     FireEach(@, closed_observers, "callback", cres).fs]
  ELSE LET l == Head(lists)
           r == FireEach(fs[l.kind], l.observers, "errback", obs)
           after == [fs EXCEPT ![l.kind] = r.fs]
       IN IF r.raised THEN after
          ELSE closed_loops(after, Tail(lists), obs, cres)

DeferredWormhole_closed(result) ==
  /\ style = "deferred"
  /\ observer_result' = closed_observer_result(result)
  /\ closed_result' = closed_closed_result(result)
  /\ futures' = closed_loops(futures, closed_errback_lists,
                             closed_observer_result(result),
                             closed_closed_result(result))
  /\ delivered' = delivered \cup {"closed"}
  /\ terminal' = result
  /\ UNCHANGED <<style, code, key, verifier, version, code_observers,
                 verifier_observers, version_observers, received_observers,
                 closed_observers, received_data, boss_close_calls,
                 delegate_calls, rx_log>>
  /\ fired' = <<>>
  /\ UNCHANGED event_log
  /\ UNCHANGED factory_fields

(***************************************************************************)
(* _DelegatedWormhole.                                                     *)
(***************************************************************************)
DelegatedWormhole_derive_key(purpose, length) ==
  /\ style = "delegated"
  /\ derive_key_outcome(key, purpose, length).t
       \in {"TypeError", "NoKeyError", "bytes"}
  /\ UNCHANGED vars

DelegatedWormhole_close ==
  /\ style = "delegated"
  /\ boss_close_calls < MaxClose
  /\ boss_close_calls' = boss_close_calls + 1
  /\ UNCHANGED <<style, key, deferred_fields, delegate_calls, delivered,
                 rx_log, terminal>>
  /\ fired' = <<>>
  /\ UNCHANGED event_log
  /\ UNCHANGED factory_fields

\* A delegate that hears of the newest event first.
notify_prepend(name, arg) == <<<<name, arg>>>> \o delegate_calls

\* self._delegate.wormhole_<name>(arg)
notify(name, arg) == Append(delegate_calls, <<name, arg>>)

DelegatedWormhole_got_code(c) ==
  /\ style = "delegated"
  /\ delegate_calls' = notify("wormhole_got_code", c)
  /\ delivered' = delivered \cup {"got_code"}
  /\ UNCHANGED <<style, key, deferred_fields, boss_close_calls, rx_log,
                 terminal>>
  /\ fired' = <<>>
  /\ event_log' = Append(event_log, <<"got_code", c>>)
  /\ UNCHANGED factory_fields

DelegatedWormhole_got_welcome(w) ==
  /\ style = "delegated"
  /\ delivered' = delivered \cup {"got_welcome"}
  /\ UNCHANGED <<style, key, deferred_fields, boss_close_calls,
                 delegate_calls, rx_log, terminal>>
  /\ fired' = <<>>
  /\ event_log' = Append(event_log, <<"got_welcome", w>>)
  /\ UNCHANGED factory_fields

DelegatedWormhole_got_key(k) ==
  /\ style = "delegated"
  /\ key' = k
  /\ delivered' = delivered \cup {"got_key"}
  /\ UNCHANGED <<style, deferred_fields, boss_close_calls, delegate_calls,
                 rx_log, terminal>>
  /\ fired' = <<>>
  /\ event_log' = Append(event_log, <<"got_key", k>>)
  /\ UNCHANGED factory_fields

DelegatedWormhole_got_verifier(v) ==
  /\ style = "delegated"
  /\ delegate_calls' = notify("wormhole_got_verifier", v)
  /\ delivered' = delivered \cup {"got_verifier"}
  /\ UNCHANGED <<style, key, deferred_fields, boss_close_calls, rx_log,
                 terminal>>
  /\ fired' = <<>>
  /\ event_log' = Append(event_log, <<"got_verifier", v>>)
  /\ UNCHANGED factory_fields

DelegatedWormhole_got_version(v) ==
  /\ style = "delegated"
  /\ delegate_calls' = notify("wormhole_got_version", v)
  /\ delivered' = delivered \cup {"got_version"}
  /\ UNCHANGED <<style, key, deferred_fields, boss_close_calls, rx_log,
                 terminal>>
  /\ fired' = <<>>
  /\ event_log' = Append(event_log, <<"got_version", v>>)
  /\ UNCHANGED factory_fields

DelegatedWormhole_received(plaintext) ==
  /\ style = "delegated"
  /\ delegate_calls' = notify("wormhole_received", plaintext)
  /\ rx_log' = Append(rx_log, plaintext)
  /\ UNCHANGED <<style, key, deferred_fields, boss_close_calls, delivered,
                 terminal>>
  /\ fired' = <<>>
  /\ event_log' = Append(event_log, <<"received", plaintext>>)
  /\ UNCHANGED factory_fields

DelegatedWormhole_closed(result) ==
  /\ style = "delegated"
  /\ delegate_calls' = notify("wormhole_closed", result)
  /\ delivered' = delivered \cup {"closed"}
  /\ terminal' = result
  /\ UNCHANGED <<style, key, deferred_fields, boss_close_calls, rx_log>>
  /\ fired' = <<>>
  /\ event_log' = Append(event_log, <<"closed", result>>)
  /\ UNCHANGED factory_fields

(***************************************************************************)
(* The Boss's side of the contract: each got_* event at most once,         *)
(* received any number of times, closed once and last.                     *)
(***************************************************************************)
MayDeliver(event) ==
  /\ "closed" \notin delivered
  /\ event \notin delivered

MayReceive ==
  /\ "closed" \notin delivered
  /\ Len(rx_log) < MaxReceived
  /\ Len(rx_log) < Len(Payloads)

Next ==
  \/ DeferredWormhole_when_code
  \/ DeferredWormhole_when_verifier
  \/ DeferredWormhole_when_version
  \/ DeferredWormhole_when_received
  \/ \E p \in Purposes, n \in Lengths : DeferredWormhole_derive_key(p, n)
  \/ DeferredWormhole_close
  \/ \E c \in Codes : MayDeliver("got_code") /\ DeferredWormhole_got_code(c)
  \/ \E w \in Welcomes :
       MayDeliver("got_welcome") /\ DeferredWormhole_got_welcome(w)
  \/ \E k \in Keys : MayDeliver("got_key") /\ DeferredWormhole_got_key(k)
  \/ \E v \in Verifiers :
       MayDeliver("got_verifier") /\ DeferredWormhole_got_verifier(v)
  \/ \E v \in Versions :
       MayDeliver("got_version") /\ DeferredWormhole_got_version(v)
  \/ MayReceive /\ \E p \in {Payloads[Len(rx_log) + 1]} :
       DeferredWormhole_received(p)
  \/ \E r \in Results : MayDeliver("closed") /\ DeferredWormhole_closed(r)
  \/ \E p \in Purposes, n \in Lengths : DelegatedWormhole_derive_key(p, n)
  \/ DelegatedWormhole_close
  \/ \E c \in Codes : MayDeliver("got_code") /\ DelegatedWormhole_got_code(c)
  \/ \E w \in Welcomes :
       MayDeliver("got_welcome") /\ DelegatedWormhole_got_welcome(w)
  \/ \E k \in Keys : MayDeliver("got_key") /\ DelegatedWormhole_got_key(k)
  \/ \E v \in Verifiers :
       MayDeliver("got_verifier") /\ DelegatedWormhole_got_verifier(v)
  \/ \E v \in Versions :
       MayDeliver("got_version") /\ DelegatedWormhole_got_version(v)
  \/ MayReceive /\ \E p \in {Payloads[Len(rx_log) + 1]} :
       DelegatedWormhole_received(p)
  \/ \E r \in Results : MayDeliver("closed") /\ DelegatedWormhole_closed(r)

Spec == Init /\ [][Next]_vars

\* The welcome handler and the factory on their own.
FactoryNext ==
  \/ \E w \in WelcomeMessages :
       Len(handled) < MaxWelcomes /\ WelcomeHandler_handle_welcome(w)
  \/ \E s \in Snapshots : from_serialized(s)

FactorySpec == FactoryInit /\ [][FactoryNext]_vars

\* The received-message queues of the Deferred facade under any order of
\* when_received(), received() and closed(), contract or not.
ReceiveInit == Init /\ style = "deferred"

ReceiveNext ==
  \/ DeferredWormhole_when_received
  \/ /\ Len(rx_log) < MaxReceived
     /\ Len(rx_log) < Len(Payloads)
     /\ \E p \in {Payloads[Len(rx_log) + 1]} : DeferredWormhole_received(p)
  \/ \E r \in Results : DeferredWormhole_closed(r)

ReceiveSpec == ReceiveInit /\ [][ReceiveNext]_vars

(***************************************************************************)
(* Properties of the facade.                                               *)
(***************************************************************************)
Closed == "closed" \in delivered

Pending(d) == d.fires = 0

WhenKinds == {"code", "verifier", "version", "received"}

\* The error closed(result) owes to when_*() observers, as errback stores it.
ObserverError(result) ==
  IF IsException(result) THEN Failure(result)
  ELSE Failure(WormholeClosed(result))

\* The step in which the Boss delivers closed() to the Deferred facade.
ClosedStep == style = "deferred" /\ terminal = None /\ terminal' /= None

\* The step in which the application gets a new Deferred of kind k.
NewDeferred(k) == Len(futures'[k]) = Len(futures[k]) + 1

TextPurposes == {p \in Purposes : IsText(p)}

\* C1: once closed(result) has been delivered to the Deferred facade, no
\* Deferred handed out by when_code, when_verifier, when_version or
\* when_received is still pending, and each one that failed carries the
\* error derived from result.
C1_ClosedResolvesEveryObserver ==
  (style = "deferred" /\ Closed) =>
    \A k \in WhenKinds : \A i \in 1..Len(futures[k]) :
      /\ ~Pending(futures[k][i])
      /\ futures[k][i].how = "errback" =>
           futures[k][i].result = ObserverError(terminal)

\* C2: on either facade, in every state after closed(result), derive_key
\* with a text purpose raises NoKeyError, whether or not got_key came first.
C2_DeriveKeyFailsAfterClosed ==
  Closed =>
    \A p \in TextPurposes, n \in Lengths :
      derive_key_outcome(key, p, n) = NoKeyError

\* C3: on either facade, in every state before got_verifier, derive_key with
\* a text purpose raises NoKeyError, whatever else has been delivered.
C3_DeriveKeyFailsBeforeVerifier ==
  "got_verifier" \notin delivered =>
    \A p \in TextPurposes, n \in Lengths :
      derive_key_outcome(key, p, n) = NoKeyError

\* C4: on the Deferred facade, while a close is in flight the Boss's close()
\* has been invoked at most once however many close() calls were made, and
\* when closed(result) fires every waiting close() Deferred holds the same
\* terminal value.
C4_CloseInFlightCallsBossOnce ==
  style = "deferred" =>
    /\ ~Closed => boss_close_calls <= 1
    /\ Closed =>
         \A j \in 1..Len(closed_observers) :
           futures["closed"][closed_observers[j]].fires >= 1 =>
             futures["closed"][closed_observers[j]].result = closed_result

\* C5: on the Deferred facade, for every terminal value, a close() made
\* after closed(result) returns an already-fired Deferred carrying the
\* cached terminal value and does not invoke the Boss's close().
C5_CloseAfterClosedIsCached ==
  [][(style = "deferred" /\ Closed /\ NewDeferred("closed")) =>
       /\ futures'["closed"][Len(futures'["closed"])].fires = 1
       /\ futures'["closed"][Len(futures'["closed"])].result
            = closed_closed_result(terminal)
       /\ boss_close_calls' = boss_close_calls]_vars

\* C6: FIFO pairing.  Before the session is closed, with N payloads
\* delivered and M when_received() calls made, the i-th request holds the
\* i-th payload for every i <= min(N, M), fired once; the remaining requests
\* are pending and queued in call order, the remaining payloads are queued
\* in delivery order.
C6_ReceivedFifoPairing ==
  (style = "deferred" /\ ~Closed) =>
    LET reqs == futures["received"]
        N == Len(rx_log)
        M == Len(reqs)
        m == IF N < M THEN N ELSE M
    IN /\ \A i \in 1..m : /\ reqs[i].fires = 1
                          /\ reqs[i].how = "callback"
                          /\ reqs[i].result = rx_log[i]
       /\ \A i \in (m + 1)..M : Pending(reqs[i])
       /\ received_observers = [j \in 1..(M - m) |-> m + j]
       /\ received_data = [j \in 1..(N - m) |-> rx_log[m + j]]

\* C6's case: a request that waited for its payload, and a later request
\* served from the queue, after two deliveries.
C6_Witness ==
  /\ style = "deferred" /\ ~Closed
  /\ Len(rx_log) >= 2
  /\ Len(futures["received"]) >= 2
  /\ futures["received"][1].born = "pending"
  /\ futures["received"][1].result = rx_log[1]
  /\ futures["received"][2].born = "fired"
  /\ futures["received"][2].result = rx_log[2]

\* The value got_X cached for kind k.
Cached(k) ==
  CASE k = "code" -> code
    [] k = "verifier" -> verifier
    [] k = "version" -> version

GotEvent(k) ==
  CASE k = "code" -> "got_code"
    [] k = "verifier" -> "got_verifier"
    [] k = "version" -> "got_version"

Observers(k) ==
  CASE k = "code" -> code_observers
    [] k = "verifier" -> verifier_observers
    [] k = "version" -> version_observers
    [] k = "received" -> received_observers
    [] k = "closed" -> closed_observers

\* C7: for X in code, verifier, version, while the session is open: before
\* got_X every when_X() Deferred is pending and waits in X's list; from
\* got_X(value) on every when_X() Deferred, requested earlier or later, has
\* fired exactly once by callback with value, and nothing waits.
C7_WhenResolvesOnceWithValue ==
  (style = "deferred" /\ ~Closed) =>
    \A k \in {"code", "verifier", "version"} :
      IF GotEvent(k) \in delivered
      THEN /\ Observers(k) = <<>>
           /\ \A i \in 1..Len(futures[k]) :
                /\ futures[k][i].fires = 1
                /\ futures[k][i].how = "callback"
                /\ futures[k][i].result = Cached(k)
                /\ Cached(k) /= None
      ELSE /\ Observers(k) = [j \in 1..Len(futures[k]) |-> j]
           /\ \A i \in 1..Len(futures[k]) :
                Pending(futures[k][i]) /\ futures[k][i].born = "pending"

\* C7's case: one when_code() before got_code and one after it, and a
\* when_verifier() that waited for got_verifier.
C7_Witness ==
  /\ style = "deferred" /\ ~Closed
  /\ Len(futures["code"]) >= 2
  /\ futures["code"][1].born = "pending" /\ futures["code"][1].result = code
  /\ futures["code"][2].born = "fired" /\ futures["code"][2].result = code
  /\ Len(futures["verifier"]) >= 1
  /\ futures["verifier"][1].born = "pending"
  /\ futures["verifier"][1].result = verifier
  /\ verifier /= None

\* C8: error fan-out.  When closed(result) is delivered with an exception,
\* every pending when_verifier, when_version and when_received Deferred
\* fails with the Failure wrapping it, and every pending close() Deferred is
\* fired with that same Failure.
C8_ErrorFanOut ==
  [][(ClosedStep /\ IsException(terminal')) =>
       /\ \A k \in {"verifier", "version", "received"} :
            \A i \in 1..Len(futures[k]) :
              Pending(futures[k][i]) =>
                /\ futures'[k][i].fires = 1
                /\ futures'[k][i].how = "errback"
                /\ futures'[k][i].result = Failure(terminal')
       /\ \A i \in 1..Len(futures["closed"]) :
            Pending(futures["closed"][i]) =>
              /\ futures'["closed"][i].fires = 1
              /\ futures'["closed"][i].result = Failure(terminal')
       /\ observer_result' = closed_result']_vars

\* A Deferred of kind k that waited until closed() fired it.
FiredByClosed(k, how) ==
  \E i \in 1..Len(futures[k]) :
    /\ futures[k][i].born = "pending"
    /\ futures[k][i].how = how
    /\ futures[k][i].result \in {ObserverError(terminal), terminal}

\* C8's case: closed(exception) found a verifier, a version, a received and
\* a close() Deferred waiting.
C8_Witness ==
  /\ style = "deferred" /\ Closed /\ IsException(terminal)
  /\ FiredByClosed("verifier", "errback")
  /\ FiredByClosed("version", "errback")
  /\ FiredByClosed("received", "errback")
  /\ FiredByClosed("closed", "callback")

\* C9: graceful close.  When closed(result) is delivered with a result that
\* is no exception, every pending when_verifier, when_version and
\* when_received Deferred fails with WormholeClosed(result), while every
\* pending close() Deferred is fired by callback with the plain result; the
\* two outcomes differ.
C9_GracefulClose ==
  [][(ClosedStep /\ ~IsException(terminal')) =>
       /\ \A k \in {"verifier", "version", "received"} :
            \A i \in 1..Len(futures[k]) :
              Pending(futures[k][i]) =>
                /\ futures'[k][i].fires = 1
                /\ futures'[k][i].how = "errback"
                /\ futures'[k][i].result = Failure(WormholeClosed(terminal'))
       /\ \A i \in 1..Len(futures["closed"]) :
            Pending(futures["closed"][i]) =>
              /\ futures'["closed"][i].fires = 1
              /\ futures'["closed"][i].how = "callback"
              /\ futures'["closed"][i].result = terminal'
       /\ observer_result' /= closed_result']_vars

\* C9's case: closed(plain result) found a verifier, a version, a received
\* and a close() Deferred waiting.
C9_Witness ==
  /\ style = "deferred" /\ Closed /\ ~IsException(terminal)
  /\ FiredByClosed("verifier", "errback")
  /\ FiredByClosed("version", "errback")
  /\ FiredByClosed("received", "errback")
  /\ FiredByClosed("closed", "callback")

\* C10: after closed(result), every when_code, when_verifier, when_version
\* and when_received call returns an already-failed Deferred carrying the
\* cached observer error, and changes no waiter list and no buffered
\* payload.
C10_StickyErrorForLateCallers ==
  [][(style = "deferred" /\ Closed) =>
       \A k \in WhenKinds :
         NewDeferred(k) =>
           /\ futures'[k][Len(futures'[k])].born = "fired"
           /\ futures'[k][Len(futures'[k])].fires = 1
           /\ futures'[k][Len(futures'[k])].how = "errback"
           /\ futures'[k][Len(futures'[k])].result = ObserverError(terminal)
           /\ UNCHANGED <<code_observers, verifier_observers,
                          version_observers, received_observers,
                          closed_observers, received_data>>]_vars

\* A Deferred of kind k that was returned already failed.
BornFailed(k) ==
  \E i \in 1..Len(futures[k]) :
    /\ futures[k][i].born = "fired"
    /\ futures[k][i].how = "errback"

\* C10's case: late when_code and when_received calls after a close that
\* followed got_code and an unconsumed payload.
C10_Witness ==
  /\ style = "deferred" /\ Closed
  /\ code /= None
  /\ received_data /= <<>>
  /\ BornFailed("code")
  /\ BornFailed("received")

(***************************************************************************)
(* The welcome handler, the factory functions and the Delegated facade.    *)
(***************************************************************************)
\* The number of "Warning: errors may occur ..." lines printed so far.
RECURSIVE WarningsPrinted(_)
WarningsPrinted(lines) ==
  IF lines = <<>> THEN 0
  ELSE (IF Head(lines).what = "version-warning" THEN 1 ELSE 0)
         + WarningsPrinted(Tail(lines))

\* The welcome names a current_cli_version other than the handler's own.
Mismatch(welcome) ==
  /\ In("current_cli_version", welcome)
  /\ welcome["current_cli_version"] /= welcome_handler.current_version

\* C11: one welcome handler prints the version warning at most once; it has
\* printed it exactly when its own version has no "-" and some welcome
\* handled so far named a different current_cli_version, and the latch
\* version_warning_displayed is true from that welcome on; it prints none
\* when its own version has a "-" or equals every advisory seen.
C11_VersionWarningOnce ==
  /\ WarningsPrinted(stderr) <= 1
  /\ WarningsPrinted(stderr) = 1 <=>
       /\ ~Contains(welcome_handler.current_version, "-")
       /\ \E i \in 1..Len(handled) : Mismatch(handled[i])
  /\ welcome_handler.version_warning_displayed <=>
       WarningsPrinted(stderr) = 1

\* C11's case: a release handler has handled two welcomes that both name
\* another version, and has warned once.
C11_Witness ==
  /\ ~Contains(welcome_handler.current_version, "-")
  /\ Len(handled) = 2
  /\ Mismatch(handled[1])
  /\ Mismatch(handled[2])
  /\ WarningsPrinted(stderr) = 1

\* The calls the error hook owes to the welcomes handled so far.
RECURSIVE ErrorSignals(_)
ErrorSignals(welcomes) ==
  IF welcomes = <<>> THEN <<>>
  ELSE (IF In("error", Head(welcomes))
        THEN <<<<WelcomeError(Head(welcomes)["error"]), "unwelcome">>>>
        ELSE <<>>)
         \o ErrorSignals(Tail(welcomes))

C13_DefaultHandlerSignalsWelcomeError ==
  (/\ welcome_handler.signal_error =
        create_welcome_handler(RelayUrl, Release).signal_error
   /\ handled /= <<>>
   /\ In("error", handled[Len(handled)])) =>
    /\ welcome_raised = None
    /\ signalled /= <<>>
    /\ signalled[Len(signalled)] =
         <<WelcomeError(handled[Len(handled)]["error"]), "unwelcome">>

\* The delegate method that hears of a Boss event, if any.
Notification(name) ==
  CASE name = "got_code" -> "wormhole_got_code"
    [] name = "got_verifier" -> "wormhole_got_verifier"
    [] name = "got_version" -> "wormhole_got_version"
    [] name = "received" -> "wormhole_received"
    [] name = "closed" -> "wormhole_closed"
    [] OTHER -> "none"

\* The delegate calls owed to a sequence of Boss events.
RECURSIVE Forwarded(_)
Forwarded(events) ==
  IF events = <<>> THEN <<>>
  ELSE (IF Notification(Head(events)[1]) = "none" THEN <<>>
        ELSE <<<<Notification(Head(events)[1]), Head(events)[2]>>>>)
         \o Forwarded(Tail(events))

C15_DelegatedCloseIdempotent ==
  style = "delegated" => boss_close_calls <= 1

\* from_serialized returned a Delegated facade on a started Boss.
Restored(outcome) ==
  /\ outcome.boss_started
  /\ outcome.returned = DelegatedWormholeObject

\* C16: from_serialized returns a Delegated facade on a started Boss
\* exactly when the snapshot's serialized_wormhole_version is 1.
C16_RestoresExactlyVersionOne ==
  restored /= None =>
    (restored.snapshot.serialized_wormhole_version = 1
       <=> Restored(restored.outcome))

(***************************************************************************)
(* The waiter lists of the Deferred facade.                                *)
(***************************************************************************)
\* C17: received_data and received_observers are never both non-empty,
\* after any sequence of received(), when_received() and closed().
C17_OneReceivedQueueEmpty ==
  ~(received_data /= <<>> /\ received_observers /= <<>>)

\* C17's case: payloads were handed to waiters, one waiter is still
\* queued, and closed() has been delivered.
C17_Witness ==
  /\ terminal /= None
  /\ Len(rx_log) = 2
  /\ received_observers /= <<>>
  /\ received_data = <<>>

\* C18: got_code, got_verifier and got_version fire the waiters of their
\* own kind in registration order, each once with the value, leave that
\* kind's list empty, and change no other kind's list, Deferreds, cached
\* value or queue.
C18_GotResolvesInRegistrationOrder ==
  [][style = "deferred" =>
       \A k \in {"code", "verifier", "version"} :
         (GotEvent(k) \notin delivered /\ GotEvent(k) \in delivered') =>
           /\ fired' = Observers(k)
           /\ \A i, j \in 1..Len(fired') : i < j => fired'[i] < fired'[j]
           /\ \A i \in 1..Len(fired') :
                /\ Pending(futures[k][fired'[i]])
                /\ futures'[k][fired'[i]].fires = 1
                /\ futures'[k][fired'[i]].how = "callback"
                /\ futures'[k][fired'[i]].result = Cached(k)'
           /\ Observers(k)' = <<>>
           /\ \A o \in Kinds \ {k} :
                /\ Observers(o)' = Observers(o)
                /\ futures'[o] = futures[o]
           /\ \A o \in {"code", "verifier", "version"} \ {k} :
                Cached(o)' = Cached(o)
           /\ UNCHANGED <<key, received_data, observer_result,
                          closed_result>>]_vars

\* C18's case: got_verifier has just fired two waiters while a
\* when_version waiter and a buffered payload stayed as they were.
C18_Witness ==
  /\ style = "deferred" /\ ~Closed
  /\ Len(fired) >= 2
  /\ verifier /= None
  /\ verifier_observers = <<>>
  /\ version = None
  /\ version_observers /= <<>>
  /\ received_data /= <<>>
  /\ \A i \in 1..Len(fired) : futures["verifier"][fired[i]].fires = 1

\* C19: when the Boss keeps its contract, no Deferred of the Deferred
\* facade is fired more than once.
C19_SingleResolution ==
  style = "deferred" =>
    \A k \in Kinds : \A i \in 1..Len(futures[k]) : futures[k][i].fires <= 1

\* A Deferred of kind k that waited and was fired by callback.
FiredByCallback(k) ==
  \E i \in 1..Len(futures[k]) :
    /\ futures[k][i].born = "pending"
    /\ futures[k][i].fires = 1
    /\ futures[k][i].how = "callback"

\* C19's case: waiters fired by got_code and got_verifier, a
\* when_version waiter failed by closed(), and a close() waiter fired.
C19_Witness ==
  /\ style = "deferred" /\ Closed
  /\ FiredByCallback("code")
  /\ FiredByCallback("verifier")
  /\ FiredByClosed("version", "errback")
  /\ FiredByClosed("closed", "callback")

\* C20: every Deferred in a waiter list of the Deferred facade is still
\* unfired, also after closed().
C20_ListedWaitersArePending ==
  style = "deferred" =>
    \A k \in Kinds :
      \A j \in 1..Len(Observers(k)) : Pending(futures[k][Observers(k)[j]])

====
